---- MODULE Spec2Model ----
(***************************************************************************)
(* The clinic admin panel of src/jupyter/db_UI.py: a Streamlit script that *)
(* is run top to bottom on every user interaction, wired to a SQLite file  *)
(* through SQLAlchemy.  One action of the model is one user interaction    *)
(* together with the whole script run it triggers (and the second run      *)
(* that st.rerun() starts after a committed write).                        *)
(***************************************************************************)
EXTENDS Integers, Sequences, FiniteSets, TLC

\* Bound of the model: the total number of rows the four tables may hold.
MaxRows == 5

\* Small input domains for the widgets.
Names == {"Jane Smith", "Ann Lee"}
Phones == {"9848000001", "9848000002"}
FirstNames == {"Amy"}
Specialties == {"Cardiology"}
Rates == {50}
Dates == {1}
Services == {"X-ray"}
Costs == {20}
Empty == ""

\* st.sidebar.selectbox("Go to", [...])
Menus == {"Doctors", "Patients", "Appointments", "Treatments", "Raw SQL"}

\* st.selectbox("Status", [...]) of the booking form
StatusOptions == {"Scheduled", "Completed", "Cancelled"}

\* The values the Appointments.status column admits (schema of Clinic.db).
Statuses == {"Scheduled", "Completed", "Cancelled"}

\* The choice of a selectbox whose option list is empty: there is no row to choose.
NoSelection == 0

\* What st.selectbox returns then (Python None); labels are tuples of their parts.
None == <<>>

VARIABLES
    db,     \* the four tables of Clinic.db, each a set of rows
    menu,   \* the screen chosen in the sidebar
    run     \* the last script run: the interaction, its inputs, what it did and showed

vars == <<db, menu, run>>

-----------------------------------------------------------------------------
(* Storage: Clinic.db *)

EmptyDB ==
    [Doctors |-> {}, Patients |-> {}, Appointments |-> {}, Treatments |-> {}]

\* The database after its first initialisation: two demo doctors, two demo patients.
SeededDB ==
    [Doctors |-> {[doctor_id |-> 1, first_name |-> "Amy", specialty |-> "Cardiology",
                   hourly_rate |-> 50],
                  [doctor_id |-> 2, first_name |-> "Bob", specialty |-> "Cardiology",
                   hourly_rate |-> 50]},
     Patients |-> {[patient_id |-> 1, name |-> "Jane Smith", phone |-> "9848000001"],
                   [patient_id |-> 2, name |-> "Ann Lee", phone |-> "9848000002"]},
     Appointments |-> {},
     Treatments |-> {}]

TotalRows(d) ==
    Cardinality(d.Doctors) + Cardinality(d.Patients)
        + Cardinality(d.Appointments) + Cardinality(d.Treatments)

Max(S) == CHOOSE x \in S : \A y \in S : y <= x
Min(S) == CHOOSE x \in S : \A y \in S : x <= y

\* The rowid SQLite gives an INTEGER PRIMARY KEY on INSERT: one more than the largest.
NextId(ids) == IF ids = {} THEN 1 ELSE Max(ids) + 1

DoctorIds(d) == {x.doctor_id : x \in d.Doctors}
PatientIds(d) == {x.patient_id : x \in d.Patients}
AppointIds(d) == {x.appoint_id : x \in d.Appointments}
TreatmentIds(d) == {x.treatment_id : x \in d.Treatments}

\* Patients.phone is UNIQUE.
UniquePhone(d, stmt) ==
    stmt.kind = "insert_patient" => \A p \in d.Patients : p.phone # stmt.phone

\* The schema without the CHECK on Appointments.status.
CheckStatus_absent(d, stmt) == TRUE

\* Appointments.status is CHECKed to be one of the three values.
CheckStatus(d, stmt) ==
    stmt.kind \in {"insert_appointment", "update_status"} => stmt.status \in Statuses

\* The FOREIGN KEY clauses of Appointments and Treatments.
ForeignKeys(d, stmt) ==
    /\ stmt.kind = "insert_appointment" =>
           stmt.pat_id \in PatientIds(d) /\ stmt.doc_id \in DoctorIds(d)
    /\ stmt.kind = "insert_treatment" => stmt.app_id \in AppointIds(d)

\* create_engine(SQLITE_DB_PATH) opens plain SQLite connections: nothing issues
\* PRAGMA foreign_keys = ON, so SQLite does not enforce FOREIGN KEY clauses.
ForeignKeysEnforced == FALSE

\* The statement raises (IntegrityError) instead of taking effect.
Violates(d, stmt) ==
    \/ ~UniquePhone(d, stmt)
    \/ ~CheckStatus(d, stmt)
    \/ ForeignKeysEnforced /\ ~ForeignKeys(d, stmt)

\* The effect of a statement that does not raise.
Apply(d, stmt) ==
    CASE stmt.kind = "insert_doctor" ->
           [d EXCEPT !.Doctors = @ \cup
               {[doctor_id |-> NextId(DoctorIds(d)), first_name |-> stmt.fname,
                 specialty |-> stmt.spec, hourly_rate |-> stmt.rate]}]
      [] stmt.kind = "insert_patient" ->
           [d EXCEPT !.Patients = @ \cup
               {[patient_id |-> NextId(PatientIds(d)), name |-> stmt.name,
                 phone |-> stmt.phone]}]
      [] stmt.kind = "insert_appointment" ->
           [d EXCEPT !.Appointments = @ \cup
               {[appoint_id |-> NextId(AppointIds(d)), patient_id |-> stmt.pat_id,
                 doctor_id |-> stmt.doc_id, appoint_date |-> stmt.app_date,
                 status |-> stmt.status]}]
      [] stmt.kind = "insert_treatment" ->
           [d EXCEPT !.Treatments = @ \cup
               {[treatment_id |-> NextId(TreatmentIds(d)), appoint_id |-> stmt.app_id,
                 service_name |-> stmt.service, cost |-> stmt.cost]}]
      [] stmt.kind = "update_status" ->
           [d EXCEPT !.Appointments =
               {IF a.appoint_id = stmt.app_id THEN [a EXCEPT !.status = stmt.status] ELSE a
                : a \in @}]
      [] stmt.kind = "delete_treatments" ->
           [d EXCEPT !.Treatments = {}]
      [] OTHER -> d

-----------------------------------------------------------------------------
(* Queries *)

RECURSIVE SortAsc(_, _)
\* The rows of S as a sequence, by ascending key (key is a function on S).
SortAsc(S, key) ==
    IF S = {} THEN <<>>
    ELSE LET m == CHOOSE x \in S : \A y \in S : key[x] <= key[y]
         IN  <<m>> \o SortAsc(S \ {m}, key)

Rows(s) == {s[i] : i \in 1..Len(s)}

\* SELECT * FROM Doctors ORDER BY doctor_id
DoctorsView(d) == SortAsc(d.Doctors, [x \in d.Doctors |-> x.doctor_id])

\* SELECT * FROM Patients ORDER BY patient_id DESC
PatientsView(d) == SortAsc(d.Patients, [x \in d.Patients |-> 0 - x.patient_id])

\* Appointments a JOIN Patients p JOIN Doctors d (inner joins)
JoinedAppointments(d) ==
    {[appoint_id |-> a.appoint_id, patient |-> p.name, doctor |-> doc.first_name,
      specialty |-> doc.specialty, appoint_date |-> a.appoint_date, status |-> a.status]
     : <<a, p, doc>> \in
         {t \in d.Appointments \X d.Patients \X d.Doctors :
            t[1].patient_id = t[2].patient_id /\ t[1].doctor_id = t[3].doctor_id}}

\* ... ORDER BY a.appoint_date DESC, a.appoint_id DESC
AppointmentsView(d) ==
    LET J == JoinedAppointments(d)
    IN  SortAsc(J, [x \in J |-> 0 - (x.appoint_date * 1000 + x.appoint_id)])

\* Treatments t JOIN Appointments a JOIN Patients p JOIN Doctors d
JoinedTreatments(d) ==
    {[treatment_id |-> t.treatment_id, service_name |-> t.service_name, cost |-> t.cost,
      appoint_date |-> j.appoint_date, patient |-> j.patient, doctor |-> j.doctor]
     : <<t, j>> \in
         {u \in d.Treatments \X JoinedAppointments(d) : u[1].appoint_id = u[2].appoint_id}}

\* ... ORDER BY t.treatment_id DESC
TreatmentsView(d) ==
    LET J == JoinedTreatments(d)
    IN  SortAsc(J, [x \in J |-> 0 - x.treatment_id])

\* SELECT * FROM Appointments LIMIT 5 (the default text of the Raw SQL screen)
AppointmentsTable(d) ==
    LET all == SortAsc(d.Appointments, [x \in d.Appointments |-> x.appoint_id])
    IN  SubSeq(all, 1, IF Len(all) < 5 THEN Len(all) ELSE 5)

-----------------------------------------------------------------------------
(* execute_query: the one write path of the four record screens *)

\* execute_query with st.rerun() moved to a finally clause: it runs after an error too.
execute_query_rerun_always(d, stmt) ==
    IF Violates(d, stmt)
    THEN [db |-> d,
          trace |-> <<"execute", "rollback", "st.error: Database Error", "st.rerun">>]
    ELSE [db |-> Apply(d, stmt),
          trace |-> <<"execute", "commit", "st.success", "st.rerun">>]

\* with engine.begin() commits when the block ends and rolls back when it raises;
\* st.rerun() raises a script-control exception that `except Exception` lets through.
execute_query(d, stmt) ==
    IF Violates(d, stmt)
    THEN [db |-> d, trace |-> <<"execute", "rollback", "st.error: Database Error">>]
    ELSE [db |-> Apply(d, stmt),
          trace |-> <<"execute", "commit", "st.success", "st.rerun">>]

-----------------------------------------------------------------------------
(* The forms *)

\* Doctors: "Save doctor"
add_doctor(d, fname, specialty, rate) ==
    IF fname = Empty \/ specialty = Empty
    THEN [db |-> d, trace |-> <<"st.error: required">>]
    ELSE execute_query(d, [kind |-> "insert_doctor", fname |-> fname,
                           spec |-> specialty, rate |-> rate])

\* add_patient with the phone parameter bound to the name field.
add_patient_phone_from_name(d, name, phone) ==
    IF name = Empty \/ phone = Empty
    THEN [db |-> d, trace |-> <<"st.error: required">>]
    ELSE execute_query(d, [kind |-> "insert_patient", name |-> name, phone |-> name])

\* add_patient with `and` for `or` in the presence test.
add_patient_and(d, name, phone) ==
    IF name = Empty /\ phone = Empty
    THEN [db |-> d, trace |-> <<"st.error: required">>]
    ELSE execute_query(d, [kind |-> "insert_patient", name |-> name, phone |-> phone])

\* add_patient with INSERT OR REPLACE: the row that holds the phone is replaced.
add_patient_replace(d, name, phone) ==
    IF name = Empty \/ phone = Empty
    THEN [db |-> d, trace |-> <<"st.error: required">>]
    ELSE execute_query([d EXCEPT !.Patients = {p \in @ : p.phone # phone}],
                       [kind |-> "insert_patient", name |-> name, phone |-> phone])

\* Patients: "Register patient"
add_patient(d, name, phone) ==
    IF name = Empty \/ phone = Empty
    THEN [db |-> d, trace |-> <<"st.error: required">>]
    ELSE execute_query(d, [kind |-> "insert_patient", name |-> name, phone |-> phone])

\* The dropdown labels of the booking form.
PatientLabel(p) == <<p.name>>
DoctorLabel(x) == <<"Dr.", x.first_name, x.specialty>>

\* What the user can choose in each dropdown: a row, or nothing when there is none.
PatientChoices(d) == IF d.Patients = {} THEN {NoSelection} ELSE PatientIds(d)
DoctorChoices(d) == IF d.Doctors = {} THEN {NoSelection} ELSE DoctorIds(d)

\* The value the selectbox hands to the script for the user's choice: the label text.
patient_name(d, choice) ==
    IF choice = NoSelection THEN None
    ELSE PatientLabel(CHOOSE p \in d.Patients : p.patient_id = choice)

doctor_combo(d, choice) ==
    IF choice = NoSelection THEN None
    ELSE DoctorLabel(CHOOSE x \in d.Doctors : x.doctor_id = choice)

\* patients.loc[patients["name"] == patient_name, "patient_id"]: the matching ids
PatientMatches(d, label) == {p.patient_id : p \in {q \in d.Patients : PatientLabel(q) = label}}
DoctorMatches(d, label) == {x.doctor_id : x \in {y \in d.Doctors : DoctorLabel(y) = label}}

\* .iloc[0]: the first match, in the table's rowid order
First(ids) == Min(ids)

\* Appointments: "Book appointment"
new_appointment(d, pat_choice, doc_choice, appoint_date, status) ==
    LET pats == PatientMatches(d, patient_name(d, pat_choice))
        docs == DoctorMatches(d, doctor_combo(d, doc_choice))
    IN  IF pats = {} \/ docs = {}
        THEN [db |-> d, trace |-> <<"exception">>]
        ELSE execute_query(d, [kind |-> "insert_appointment", pat_id |-> First(pats),
                               doc_id |-> First(docs), app_date |-> appoint_date,
                               status |-> status])

\* Treatments: the appointments offered by the form (inner joins again)
FormAppointments(d) ==
    {[appoint_id |-> j.appoint_id, date |-> j.appoint_date, name |-> j.patient,
      first_name |-> j.doctor] : j \in JoinedAppointments(d)}

AppointLabel(x) == <<x.date, x.name, x.first_name>>

AppointChoices(d) ==
    IF FormAppointments(d) = {} THEN {NoSelection}
    ELSE {x.appoint_id : x \in FormAppointments(d)}

appoint_choice(d, choice) ==
    IF choice = NoSelection THEN None
    ELSE AppointLabel(CHOOSE x \in FormAppointments(d) : x.appoint_id = choice)

AppointMatches(d, label) ==
    {x.appoint_id : x \in {y \in FormAppointments(d) : AppointLabel(y) = label}}

\* Treatments: "Record treatment" (the id lookup has run before the button is drawn)
add_treatment(d, choice, service, cost) ==
    IF service = Empty
    THEN [db |-> d, trace |-> <<"st.error: required">>]
    ELSE execute_query(d, [kind |-> "insert_treatment",
                           app_id |-> First(AppointMatches(d, appoint_choice(d, choice))),
                           service |-> service, cost |-> cost])

-----------------------------------------------------------------------------
(* One script run *)

\* What drawing screen m does when no button of it is pressed. emptyApplyFails is
\* the pandas build: DataFrame.apply(axis=1) of an empty frame gives a frame, which
\* has no tolist(), in the builds where it fails, and an empty list in the others.
Render(m, d, emptyApplyFails) ==
    CASE m = "Appointments" ->
           IF d.Doctors = {} /\ emptyApplyFails THEN <<"exception">> ELSE <<>>
      [] m = "Treatments" ->
           IF AppointMatches(d, appoint_choice(d, Min(AppointChoices(d)))) = {}
           THEN <<"exception">> ELSE <<>>
      [] OTHER -> <<>>

Last(s) == s[Len(s)]

\* The run of a handler, and the second run st.rerun() starts.
Finish(m, out, emptyApplyFails) ==
    IF out.trace # <<>> /\ Last(out.trace) = "st.rerun"
    THEN out.trace \o Render(m, out.db, emptyApplyFails)
    ELSE out.trace

\* A script run may only leave the tables within the model's bound.
Fits(d) == TotalRows(d) <= MaxRows

-----------------------------------------------------------------------------
(* The user's interactions *)

Init ==
    /\ db \in {EmptyDB, SeededDB}
    /\ menu = "Doctors"
    /\ run = [op |-> "start", input |-> <<>>, trace |-> <<>>,
              shown |-> FALSE, view |-> <<>>]

SelectMenu ==
    \E m \in Menus, emptyApplyFails \in BOOLEAN :
        /\ menu' = m
        /\ run' = [op |-> "menu", input |-> <<m>>,
                   trace |-> Render(m, db, emptyApplyFails),
                   shown |-> FALSE, view |-> <<>>]
        /\ UNCHANGED db

RefreshDoctors ==
    /\ menu = "Doctors"
    /\ run' = [op |-> "refresh_docs", input |-> <<>>, trace |-> <<"st.dataframe">>,
               shown |-> TRUE, view |-> DoctorsView(db)]
    /\ UNCHANGED <<db, menu>>

SaveDoctor ==
    /\ menu = "Doctors"
    /\ \E fname \in FirstNames \cup {Empty}, specialty \in Specialties \cup {Empty},
          rate \in Rates :
        LET out == add_doctor(db, fname, specialty, rate)
        IN  /\ Fits(out.db)
            /\ db' = out.db
            /\ run' = [op |-> "add_doctor",
                       input |-> [fname |-> fname, specialty |-> specialty, rate |-> rate],
                       trace |-> Finish(menu, out, FALSE),
                       shown |-> FALSE, view |-> <<>>]
    /\ UNCHANGED menu

RefreshPatients ==
    /\ menu = "Patients"
    /\ run' = [op |-> "refresh_pats", input |-> <<>>, trace |-> <<"st.dataframe">>,
               shown |-> TRUE, view |-> PatientsView(db)]
    /\ UNCHANGED <<db, menu>>

RegisterPatient ==
    /\ menu = "Patients"
    /\ \E name \in Names \cup {Empty}, phone \in Phones \cup {Empty} :
        LET out == add_patient(db, name, phone)
        IN  /\ Fits(out.db)
            /\ db' = out.db
            /\ run' = [op |-> "add_patient", input |-> [name |-> name, phone |-> phone],
                       trace |-> Finish(menu, out, FALSE),
                       shown |-> FALSE, view |-> <<>>]
    /\ UNCHANGED menu

\* The table is drawn first, the booking form below it.
RefreshAppointments ==
    /\ menu = "Appointments"
    /\ \E emptyApplyFails \in BOOLEAN :
        run' = [op |-> "refresh_apps", input |-> <<>>,
                trace |-> <<"st.dataframe">> \o Render(menu, db, emptyApplyFails),
                shown |-> TRUE, view |-> AppointmentsView(db)]
    /\ UNCHANGED <<db, menu>>

\* The form is drawn (lines 129-140) before the submit branch runs.
BookAppointment ==
    /\ menu = "Appointments"
    /\ \E pat \in PatientChoices(db), doc \in DoctorChoices(db), appoint_date \in Dates,
          status \in StatusOptions, emptyApplyFails \in BOOLEAN :
        LET drawn == Render(menu, db, emptyApplyFails)
            out == IF drawn # <<>> THEN [db |-> db, trace |-> drawn]
                   ELSE new_appointment(db, pat, doc, appoint_date, status)
        IN  /\ Fits(out.db)
            /\ db' = out.db
            /\ run' = [op |-> "new_appointment",
                       input |-> [patient |-> pat, doctor |-> doc,
                                  appoint_date |-> appoint_date, status |-> status],
                       trace |-> Finish(menu, out, emptyApplyFails),
                       shown |-> FALSE, view |-> <<>>]
    /\ UNCHANGED menu

RefreshTreatments ==
    /\ menu = "Treatments"
    /\ run' = [op |-> "refresh_treat", input |-> <<>>,
               trace |-> <<"st.dataframe">> \o Render(menu, db, FALSE),
               shown |-> TRUE, view |-> TreatmentsView(db)]
    /\ UNCHANGED <<db, menu>>

\* The submit button exists only on a page whose id lookup (line 191) did not raise.
RecordTreatment ==
    /\ menu = "Treatments"
    /\ Render(menu, db, FALSE) = <<>>
    /\ \E choice \in AppointChoices(db), service \in Services \cup {Empty}, cost \in Costs :
        LET out == add_treatment(db, choice, service, cost)
        IN  /\ Fits(out.db)
            /\ db' = out.db
            /\ run' = [op |-> "add_treatment",
                       input |-> [appointment |-> choice, service |-> service,
                                  cost |-> cost],
                       trace |-> Finish(menu, out, FALSE),
                       shown |-> FALSE, view |-> <<>>]
    /\ UNCHANGED menu

\* The texts tried in the Raw SQL box.
RawQueries(d) ==
    {[kind |-> "select"], [kind |-> "malformed"]}
    \cup {[kind |-> "update_status", app_id |-> i, status |-> s]
          : i \in AppointIds(d), s \in {"Completed", "Pending"}}
    \cup {[kind |-> "insert_appointment", pat_id |-> 9, doc_id |-> 9, app_date |-> t,
           status |-> "Scheduled"] : t \in Dates}
    \cup {[kind |-> "delete_treatments"]}

\* pd.read_sql(q, engine) inside try/except. A statement that returns no rows makes
\* read_sql raise after the statement ran. Whether its effect outlives the
\* connection (persists) is decided by the text and the build: SQLAlchemy 1.x
\* autocommits INSERT/UPDATE/DELETE, and the sqlite3 driver opens no transaction
\* for a statement that starts with another word (WITH ... DELETE), so that SQLite
\* commits it at once; otherwise closing the connection rolls it back.
run_sql(d, q, persists) ==
    CASE q.kind = "select" ->
           [db |-> d, trace |-> <<"st.dataframe", "st.info">>,
            shown |-> TRUE, view |-> AppointmentsTable(d)]
      [] q.kind = "malformed" ->
           [db |-> d, trace |-> <<"st.error: SQL Error">>, shown |-> FALSE, view |-> <<>>]
      [] OTHER ->
           [db |-> IF ~Violates(d, q) /\ persists THEN Apply(d, q) ELSE d,
            trace |-> <<"st.error: SQL Error">>, shown |-> FALSE, view |-> <<>>]

RunRawSQL ==
    /\ menu = "Raw SQL"
    /\ \E q \in RawQueries(db), persists \in BOOLEAN :
        LET out == run_sql(db, q, persists)
        IN  /\ Fits(out.db)
            /\ db' = out.db
            /\ run' = [op |-> "raw_sql", input |-> q, trace |-> out.trace,
                       shown |-> out.shown, view |-> out.view]
    /\ UNCHANGED menu

Next ==
    \/ SelectMenu
    \/ RefreshDoctors
    \/ SaveDoctor
    \/ RefreshPatients
    \/ RegisterPatient
    \/ RefreshAppointments
    \/ BookAppointment
    \/ RefreshTreatments
    \/ RecordTreatment
    \/ RunRawSQL

Spec == Init /\ [][Next]_vars

-----------------------------------------------------------------------------
(* Properties *)

Events(t) == {t[i] : i \in 1..Len(t)}

Errors == {"st.error: required", "st.error: Database Error", "st.error: SQL Error"}

Count(t, e) == Cardinality({i \in 1..Len(t) : t[i] = e})

Committed == <<"execute", "commit", "st.success", "st.rerun">>
RolledBack == <<"execute", "rollback", "st.error: Database Error">>

StartsWith(t, prefix) == Len(t) >= Len(prefix) /\ SubSeq(t, 1, Len(prefix)) = prefix

WriteForms == {"add_doctor", "add_patient", "new_appointment", "add_treatment"}

\* C1: submitting "Register patient" with a phone some Patient row already holds
\* reports an error, shows no success message and leaves every table as it was.
DuplicatePhoneRejected ==
    [][(run'.op = "add_patient"
          /\ \E p \in db.Patients : p.phone = run'.input.phone)
       => /\ db' = db
          /\ Events(run'.trace) \cap Errors # {}
          /\ "st.success" \notin Events(run'.trace)]_vars

\* A duplicate phone has been submitted with a name and the database refused it.
DuplicatePhoneWitness ==
    /\ run.op = "add_patient"
    /\ run.input.name # Empty
    /\ \E p \in db.Patients : p.phone = run.input.phone /\ p.name # run.input.name
    /\ run.trace = RolledBack

\* C2: "Book appointment" with a chosen patient and doctor adds exactly one
\* Appointment row, carrying the ids of the chosen rows, and the joined list shows
\* it with their names.
BookingUsesChosenRows ==
    [][(run'.op = "new_appointment"
          /\ run'.input.patient # NoSelection /\ run'.input.doctor # NoSelection)
       => \E a \in db'.Appointments :
             /\ a \notin db.Appointments
             /\ db'.Appointments = db.Appointments \cup {a}
             /\ a.patient_id = run'.input.patient
             /\ a.doctor_id = run'.input.doctor
             /\ \E j \in Rows(AppointmentsView(db')), p \in db.Patients, x \in db.Doctors :
                   /\ j.appoint_id = a.appoint_id
                   /\ p.patient_id = run'.input.patient /\ j.patient = p.name
                   /\ x.doctor_id = run'.input.doctor /\ j.doctor = x.first_name]_vars

\* C3: every Appointment refers to an existing Patient and Doctor, every Treatment
\* to an existing Appointment, and an INSERT of an Appointment with a non-existent
\* patient or doctor id is rejected.
ReferentialIntegrity ==
    /\ \A a \in db.Appointments :
          a.patient_id \in PatientIds(db) /\ a.doctor_id \in DoctorIds(db)
    /\ \A t \in db.Treatments : t.appoint_id \in AppointIds(db)

RequiredMissing(r) ==
    \/ r.op = "add_doctor" /\ (r.input.fname = Empty \/ r.input.specialty = Empty)
    \/ r.op = "add_patient" /\ (r.input.name = Empty \/ r.input.phone = Empty)
    \/ r.op = "add_treatment" /\ r.input.service = Empty

RequiredPresent(r) ==
    \/ r.op = "add_doctor" /\ r.input.fname # Empty /\ r.input.specialty # Empty
    \/ r.op = "add_patient" /\ r.input.name # Empty /\ r.input.phone # Empty
    \/ r.op = "add_treatment" /\ r.input.service # Empty

\* C5: a creation form with an empty required text field issues no INSERT, leaves
\* the tables unchanged and only shows an error; with every required text field
\* filled it issues exactly one INSERT.
PresenceValidation ==
    [][/\ RequiredMissing(run') => db' = db /\ run'.trace = <<"st.error: required">>
       /\ RequiredPresent(run') => Count(run'.trace, "execute") = 1]_vars

\* "Record treatment" was submitted without a service name and only showed the error.
PresenceWitness ==
    /\ run.op = "add_treatment"
    /\ run.input.service = Empty
    /\ run.trace = <<"st.error: required">>
    /\ db.Appointments # {}

\* Every row of d is still in e, an Appointment's status aside.
Kept(d, e) ==
    /\ d.Doctors \subseteq e.Doctors
    /\ d.Patients \subseteq e.Patients
    /\ d.Treatments \subseteq e.Treatments
    /\ \A a \in d.Appointments :
          \E b \in e.Appointments : a = [b EXCEPT !.status = a.status]

\* C6 as stated: on all five screens, Raw SQL included, rows are never deleted and
\* never altered, an Appointment's status aside.
RowsKeptOnAllScreens == [][Kept(db, db')]_vars

\* C6 amended: the four record screens never delete or alter a row (an
\* Appointment's status aside); the Raw SQL screen can.
RowsKeptOnRecordScreens == [][run'.op # "raw_sql" => Kept(db, db')]_vars

\* A record screen has written while the tables held rows to keep.
RowsKeptWitness ==
    /\ run.op = "add_patient"
    /\ StartsWith(run.trace, Committed)
    /\ Cardinality(db.Patients) = 2
    /\ db.Appointments # {}

\* C7: after a successful write the screen's table is fetched again and shown, so
\* the row just written is on the page without any further action.
WrittenRowIsShown ==
    (run.op \in WriteForms /\ "commit" \in Events(run.trace))
    => /\ run.shown
       /\ run.op = "add_doctor" =>
             \E r \in Rows(run.view) : r.doctor_id = Max(DoctorIds(db))
       /\ run.op = "add_patient" =>
             \E r \in Rows(run.view) : r.patient_id = Max(PatientIds(db))
       /\ run.op = "new_appointment" =>
             \E r \in Rows(run.view) : r.appoint_id = Max(AppointIds(db))
       /\ run.op = "add_treatment" =>
             \E r \in Rows(run.view) : r.treatment_id = Max(TreatmentIds(db))

\* C8: every failure ends in an inline error message, never an uncaught exception.
NoUncaughtException == "exception" \notin Events(run.trace)

\* C9: a call of execute_query either commits and then shows the success message
\* and asks for one rerun, or rolls back, changes no table, shows the database
\* error and asks for no rerun.
ExecuteQueryOutcomes ==
    [][(run'.op \in WriteForms /\ "execute" \in Events(run'.trace))
       => \/ /\ StartsWith(run'.trace, Committed)
             /\ db' # db
             /\ Events(run'.trace) \cap Errors = {}
             /\ Count(run'.trace, "st.rerun") = 1
          \/ /\ run'.trace = RolledBack
             /\ db' = db]_vars

\* A booking has gone through execute_query and committed.
ExecuteQueryWitness ==
    /\ run.op = "new_appointment"
    /\ StartsWith(run.trace, Committed)
    /\ \E p \in db.Patients : \E q \in db.Patients : p.phone # q.phone

====
